---- MODULE Spec2Model ----
(***************************************************************************)
(* Yield-farming reward accounting (contracts/yield-farming-v1/program).   *)
(*                                                                         *)
(* One farm (FarmPool), its stakers (UserInfo), the two custodial token    *)
(* accounts of the farm and the program configuration (FarmProgram).       *)
(* Every instruction of processor.rs is one action.  An instruction that   *)
(* returns Err (or panics) changes no account, which is what the runtime   *)
(* does with a failed transaction: the action is enabled exactly when the  *)
(* instruction succeeds, and process_xxx(...).ok tells whether it does.    *)
(*                                                                         *)
(* Arithmetic is modelled as the code computes it: spl_math's              *)
(* PreciseNumber is a fixed-point number value/ONE whose mul, div and      *)
(* to_imprecise add ONE/2 before the truncating division, and plain u64    *)
(* arithmetic either panics or wraps, depending on the build profile       *)
(* (overflow_checks).  TLC's integers are 32 bits wide, so the numeric     *)
(* constants are scaled down: ONE is 10^2 for 10^12, REWARD_MULTIPLER is   *)
(* 10 for 10^9, U64Mod is 2^8 for 2^64 and JUMP_DEBT is 139 for 10^19      *)
(* (the same fraction of the modulus).  REWARD_MULTIPLER still divides     *)
(* ONE, as in the source.                                                  *)
(***************************************************************************)
EXTENDS Integers, FiniteSets, Sequences, TLC

\* ---------------------------------------------------------------- bounds
MaxTime == 5
MaxAmount == 1
MaxReward == 4
MaxBudget == 4
MaxCalls == 4

\* ------------------------------------------------------------- constants
ONE == 100
REWARD_MULTIPLER == 10
JUMP_DEBT == 139
U64Mod == 256

None == -1

Stakers == {"alice", "bob"}
\* what every staker holds in the lp token account of the wallet
InitialLp == [alice |-> 2, bob |-> 1]
StartTimes == {1}
EndTimes == {4}
FeeConfigs == {<<1, 4>>}
FARM_FEE == 1
\* the modelled farm is the one RemoveRewards is restricted to
REMOVE_REWARDS_FARM_ADDRESS == "farm"
\* program_data.super_owner
SUPER_OWNER == "super_owner"

Min(a, b) == IF a < b THEN a ELSE b

\* Body applied to the value of v, which is computed once
With(v, Body(_)) == CHOOSE r \in {Body(x) : x \in {v}} : TRUE

\* ------------------------------------------- spl_math::PreciseNumber
\* A PreciseNumber is modelled by its inner value; None is a failed Option.
PN_new(x) == x * ONE

PN_to_imprecise(v) == (v + ONE \div 2) \div ONE

PN_checked_mul(a, b) ==
    IF a = None \/ b = None THEN None
    ELSE (a * b + ONE \div 2) \div ONE

PN_checked_div(a, b) ==
    IF a = None \/ b = None THEN None
    ELSE IF b = 0 THEN None
    ELSE (a * ONE + ONE \div 2) \div b

PN_checked_add(a, b) ==
    IF a = None \/ b = None THEN None ELSE a + b

PN_checked_sub(a, b) ==
    IF a = None \/ b = None THEN None
    ELSE IF a < b THEN None
    ELSE a - b

\* u64::try_from(x).unwrap_or(0)
TryFromU64(x) == IF x < U64Mod THEN x ELSE 0

\* u64 `-` and `+`: a panic (None) with overflow checks, a wrap without.
U64Sub(a, b, checks) ==
    IF a >= b THEN a - b
    ELSE IF checks THEN None
    ELSE a - b + U64Mod

U64Add(a, b, checks) ==
    IF a + b < U64Mod THEN a + b
    ELSE IF checks THEN None
    ELSE a + b - U64Mod

\* ------------------------------------------------------ state.rs: FarmPool
get_pool_version(p) == p.is_allowed \div 10

\* set_pool_version that takes the flag digit with / instead of %
set_pool_version_divides(p, ver) ==
    [p EXCEPT !.is_allowed = ((p.is_allowed \div 10) + ver * 10) % 256]

\* set_pool_version that stores the version without the flag digit
set_pool_version_drops_flag(p, ver) ==
    [p EXCEPT !.is_allowed = (ver * 10) % 256]

set_pool_version(p, ver) ==
    [p EXCEPT !.is_allowed = ((p.is_allowed % 10) + ver * 10) % 256]

is_allowed(p) == p.is_allowed % 10 > 0

\* set_allowed that stores the flag over the whole byte, version digit included
set_allowed_drops_version(p, allowed) ==
    [p EXCEPT !.is_allowed = allowed % 256]

set_allowed(p, allowed) ==
    [p EXCEPT !.is_allowed = ((p.is_allowed \div 10) * 10 + allowed) % 256]

\* deposit_balance * reward_per_share_net / REWARD_MULTIPLER as a PreciseNumber
share_of(p, u) ==
    PN_checked_div(
        PN_checked_mul(PN_new(u.deposit_balance), PN_new(p.reward_per_share_net)),
        PN_new(REWARD_MULTIPLER))

\* pending_rewards: [ok, val, user]; it raises a debt below JUMP_DEBT first.
pending_rewards(p, u) ==
    With(IF u.reward_debt < JUMP_DEBT THEN JUMP_DEBT ELSE u.reward_debt, LAMBDA debt1 :
    With(share_of(p, u), LAMBDA raw :
    With(IF PN_to_imprecise(PN_new(debt1 - JUMP_DEBT)) > 0
         THEN PN_checked_sub(raw, PN_new(debt1 - JUMP_DEBT))
         ELSE raw, LAMBDA result :
       IF result = None
       THEN [ok |-> FALSE, val |-> 0, user |-> [u EXCEPT !.reward_debt = debt1]]
       ELSE [ok |-> TRUE, val |-> TryFromU64(PN_to_imprecise(result)),
             user |-> [u EXCEPT !.reward_debt = debt1]])))

\* get_new_reward_debt: the new debt, or None
get_new_reward_debt(p, u, checks) ==
    With(share_of(p, u), LAMBDA result :
       IF result = None THEN None
       ELSE U64Add(JUMP_DEBT, TryFromU64(PN_to_imprecise(result)), checks))

\* get_harvest_fee: the fee, or None
get_harvest_fee(pending, pd) ==
    With(PN_checked_div(
             PN_checked_mul(PN_new(pending), PN_new(pd.harvest_fee_numerator)),
             PN_new(pd.harvest_fee_denominator)), LAMBDA result :
       IF result = None THEN None
       ELSE TryFromU64(PN_to_imprecise(result)))

\* update_share, lines 170-176: the pool after the version-0 conversion
convert_pool(p, reward_balance) ==
    IF get_pool_version(p) = 0
    THEN set_pool_version(
             [p EXCEPT !.remained_reward_amount = reward_balance,
                       !.reward_per_share_net = 0,
                       !.last_timestamp = p.start_timestamp], 1)
    ELSE p

\* update_share, lines 182-206: the reward of the period as a PreciseNumber, or None
period_reward(p1, cur_timestamp, checks) ==
    With(IF cur_timestamp > p1.end_timestamp THEN p1.end_timestamp ELSE cur_timestamp,
         LAMBDA calc_timestamp :
    With(U64Sub(p1.end_timestamp, p1.last_timestamp, checks), LAMBDA d1 :
    With(U64Sub(calc_timestamp, p1.last_timestamp, checks), LAMBDA d2 :
       IF d1 = None \/ d2 = None THEN None
       ELSE
       With(PN_checked_div(PN_new(p1.remained_reward_amount), PN_new(d1)),
            LAMBDA reward_per_timestamp :
       With(PN_checked_mul(PN_new(d2), reward_per_timestamp), LAMBDA reward :
          IF reward = None THEN None
          ELSE IF PN_to_imprecise(reward) > p1.remained_reward_amount
          THEN PN_new(p1.remained_reward_amount)
          ELSE reward)))))

\* update_share, lines 182-217, on the converted pool p1: [ok, pool]
share_period(p, p1, cur_timestamp, lp_balance, checks) ==
    With(period_reward(p1, cur_timestamp, checks), LAMBDA reward :
       IF reward = None THEN [ok |-> FALSE, pool |-> p]
       ELSE
       With(PN_checked_add(
                PN_checked_div(PN_checked_mul(PN_new(REWARD_MULTIPLER), reward),
                               PN_new(lp_balance)),
                PN_new(p1.reward_per_share_net)), LAMBDA updated_share :
          IF updated_share = None THEN [ok |-> FALSE, pool |-> p]
          ELSE [ok |-> TRUE,
                pool |-> [p1 EXCEPT !.remained_reward_amount =
                                        @ - TryFromU64(PN_to_imprecise(reward)),
                                    !.reward_per_share_net =
                                        PN_to_imprecise(updated_share)]]))

\* update_share with the conversion of lines 170-176 taken on every call
update_share_reconverts(p, cur_timestamp, lp_balance, reward_balance, checks) ==
    With(convert_pool(set_pool_version(p, 0), reward_balance), LAMBDA p1 :
       share_period(p, p1, cur_timestamp, lp_balance, checks))

\* update_share: [ok, pool]
update_share(p, cur_timestamp, lp_balance, reward_balance, checks) ==
    With(convert_pool(p, reward_balance), LAMBDA p1 :
       share_period(p, p1, cur_timestamp, lp_balance, checks))

\* ------------------------------------------------ processor.rs: helpers
\* update_pool without the branch of lines 1297-1300 for an empty farm
update_pool_always_shares(p, cur_timestamp, lp_balance, reward_balance, checks) ==
    IF p.last_timestamp >= cur_timestamp THEN [ok |-> TRUE, pool |-> p]
    ELSE With(update_share(p, cur_timestamp, lp_balance, reward_balance, checks),
              LAMBDA r :
            IF ~r.ok THEN [ok |-> FALSE, pool |-> p]
            ELSE [ok |-> TRUE, pool |-> [r.pool EXCEPT !.last_timestamp = cur_timestamp]])

\* update_pool that returns early only for cur_timestamp below last_timestamp
update_pool_strict(p, cur_timestamp, lp_balance, reward_balance, checks) ==
    IF p.last_timestamp > cur_timestamp THEN [ok |-> TRUE, pool |-> p]
    ELSE IF lp_balance = 0
    THEN [ok |-> TRUE, pool |-> [p EXCEPT !.last_timestamp = cur_timestamp]]
    ELSE With(update_share(p, cur_timestamp, lp_balance, reward_balance, checks),
              LAMBDA r :
            IF ~r.ok THEN [ok |-> FALSE, pool |-> p]
            ELSE [ok |-> TRUE, pool |-> [r.pool EXCEPT !.last_timestamp = cur_timestamp]])

\* update_pool: [ok, pool]
update_pool(p, cur_timestamp, lp_balance, reward_balance, checks) ==
    IF p.last_timestamp >= cur_timestamp THEN [ok |-> TRUE, pool |-> p]
    ELSE IF lp_balance = 0
    THEN [ok |-> TRUE, pool |-> [p EXCEPT !.last_timestamp = cur_timestamp]]
    ELSE With(update_share(p, cur_timestamp, lp_balance, reward_balance, checks),
              LAMBDA r :
            IF ~r.ok THEN [ok |-> FALSE, pool |-> p]
            ELSE [ok |-> TRUE, pool |-> [r.pool EXCEPT !.last_timestamp = cur_timestamp]])

\* harvest, lines 1330-1359: the two transfers and the debt, for pending > 0;
\* issued counts the token transfers completed before the return
pay_pending(u1, pending, reward_balance, pd, checks) ==
    With(get_harvest_fee(pending, pd), LAMBDA harvest_fee :
       IF harvest_fee = None \/ harvest_fee > reward_balance
       THEN [ok |-> FALSE, user |-> u1, fee |-> 0, net |-> 0, issued |-> 0]
       ELSE
       With(U64Sub(pending, harvest_fee, checks), LAMBDA net :
       With(U64Add(u1.reward_debt, pending, checks), LAMBDA debt :
          IF net = None \/ net > reward_balance - harvest_fee
          THEN [ok |-> FALSE, user |-> u1, fee |-> 0, net |-> 0, issued |-> 1]
          ELSE IF debt = None
          THEN [ok |-> FALSE, user |-> u1, fee |-> 0, net |-> 0, issued |-> 2]
          ELSE [ok |-> TRUE, user |-> [u1 EXCEPT !.reward_debt = debt],
                fee |-> harvest_fee, net |-> net, issued |-> 2])))

\* harvest without the cap of lines 1325-1327
harvest_uncapped(p, u, reward_balance, pd, checks) ==
    With(pending_rewards(p, u), LAMBDA pr :
       IF ~pr.ok THEN [ok |-> FALSE, user |-> u, fee |-> 0, net |-> 0, issued |-> 0]
       ELSE IF pr.val = 0
       THEN [ok |-> TRUE, user |-> pr.user, fee |-> 0, net |-> 0, issued |-> 0]
       ELSE pay_pending(pr.user, pr.val, reward_balance, pd, checks))

\* harvest: [ok, user, fee, net, issued]; reward_balance is the custody balance
\* it reads
harvest(p, u, reward_balance, pd, checks) ==
    With(pending_rewards(p, u), LAMBDA pr :
    With(IF reward_balance < pr.val THEN reward_balance ELSE pr.val, LAMBDA pending :
       IF ~pr.ok THEN [ok |-> FALSE, user |-> u, fee |-> 0, net |-> 0, issued |-> 0]
       ELSE IF pending = 0
       THEN [ok |-> TRUE, user |-> pr.user, fee |-> 0, net |-> 0, issued |-> 0]
       ELSE pay_pending(pr.user, pending, reward_balance, pd, checks)))

\* ------------------------------------------------------------------ state
VARIABLES
    now,                \* Clock sysvar: unix_timestamp
    overflow_checks,    \* build profile: u64 overflow panics (TRUE) or wraps
    program_data,       \* FarmProgram
    farm_pool,          \* FarmPool
    user_info,          \* UserInfo of every staker
    pool_lp_token,      \* amount of pool_lp_token_account
    pool_reward_token,  \* amount of pool_reward_token_account
    user_lp_token,      \* amount of every staker's lp token account
    total_added,        \* sum of the AddReward amounts
    total_paid,         \* sum of the rewards paid out: to stakers and as harvest fee
    accrual_calls,      \* update_pool calls so far (counted up to MaxBudget + 1)
    removed             \* RemoveRewards has succeeded

vars == <<now, overflow_checks, program_data, farm_pool, user_info,
          pool_lp_token, pool_reward_token, user_lp_token, total_added,
          total_paid, accrual_calls, removed>>

Count(n) == Min(n + 1, MaxCalls)

\* process_initialize_farm on a zeroed account
process_initialize_farm(start_timestamp, end_timestamp, allowed) ==
    LET zero == [is_allowed |-> 0, reward_per_share_net |-> 0, last_timestamp |-> 0,
                 remained_reward_amount |-> 0, start_timestamp |-> 0,
                 end_timestamp |-> 0]
    IN [set_allowed(zero, allowed) EXCEPT !.reward_per_share_net = 0,
                                          !.last_timestamp = start_timestamp,
                                          !.remained_reward_amount = 0,
                                          !.start_timestamp = start_timestamp,
                                          !.end_timestamp = end_timestamp]

\* process_initialize_or_set_program, then process_initialize_farm
Init ==
    /\ now = 0
    /\ overflow_checks \in BOOLEAN
    /\ \E fc \in FeeConfigs :
          program_data = [farm_fee |-> FARM_FEE,
                          harvest_fee_numerator |-> fc[1],
                          harvest_fee_denominator |-> fc[2]]
    /\ \E s \in StartTimes, e \in EndTimes, allowed \in {0, 1} :
          /\ e > s
          /\ farm_pool = process_initialize_farm(s, e, allowed)
    /\ user_info = [u \in Stakers |-> [deposit_balance |-> 0, reward_debt |-> 0]]
    /\ pool_lp_token = 0
    /\ pool_reward_token = 0
    /\ user_lp_token = InitialLp
    /\ total_added = 0
    /\ total_paid = 0
    /\ accrual_calls = 0
    /\ removed = FALSE

\* the clock advances between instructions
Tick ==
    /\ now < MaxTime
    /\ now' = now + 1
    /\ UNCHANGED <<overflow_checks, program_data, farm_pool, user_info,
                   pool_lp_token, pool_reward_token, user_lp_token, total_added,
                   total_paid, accrual_calls, removed>>

\* settle with the stake changed before the harvest
settle_restakes_first(p, ui, delta, amount) ==
    With(IF delta > 0 THEN U64Add(ui.deposit_balance, delta, overflow_checks)
         ELSE ui.deposit_balance + delta, LAMBDA bal :
       IF bal = None
       THEN [ok |-> FALSE, pool |-> farm_pool, user |-> ui, fee |-> 0, net |-> 0,
             amount |-> 0, issued |-> 0]
       ELSE
       With(IF ui.deposit_balance > 0
            THEN harvest(p, [ui EXCEPT !.deposit_balance = bal], pool_reward_token,
                         program_data, overflow_checks)
            ELSE [ok |-> TRUE, user |-> ui, fee |-> 0, net |-> 0, issued |-> 0],
            LAMBDA hv :
       With(get_new_reward_debt(p, [hv.user EXCEPT !.deposit_balance = bal],
                                overflow_checks), LAMBDA debt :
          IF ~hv.ok \/ debt = None
          THEN [ok |-> FALSE, pool |-> farm_pool, user |-> ui, fee |-> 0, net |-> 0,
                amount |-> 0, issued |-> hv.issued]
          ELSE [ok |-> TRUE, pool |-> p,
                user |-> [deposit_balance |-> bal, reward_debt |-> debt],
                fee |-> hv.fee, net |-> hv.net, amount |-> amount,
                issued |-> hv.issued + (IF amount > 0 THEN 1 ELSE 0)])))

\* settle on a pool record that update_pool has already written to the account
settle_persists_accrual(p, ui, delta, amount) ==
    With(IF ui.deposit_balance > 0
         THEN harvest(p, ui, pool_reward_token, program_data, overflow_checks)
         ELSE [ok |-> TRUE, user |-> ui, fee |-> 0, net |-> 0, issued |-> 0],
         LAMBDA hv :
    With(IF delta > 0 THEN U64Add(hv.user.deposit_balance, delta, overflow_checks)
         ELSE hv.user.deposit_balance + delta, LAMBDA bal :
    With(IF bal = None THEN None
         ELSE get_new_reward_debt(p, [hv.user EXCEPT !.deposit_balance = bal],
                                  overflow_checks), LAMBDA debt :
       IF ~hv.ok \/ bal = None \/ debt = None
       THEN [ok |-> FALSE, pool |-> p, user |-> ui, fee |-> 0, net |-> 0,
             amount |-> 0, issued |-> hv.issued]
       ELSE [ok |-> TRUE, pool |-> p,
             user |-> [deposit_balance |-> bal, reward_debt |-> debt],
             fee |-> hv.fee, net |-> hv.net, amount |-> amount,
             issued |-> hv.issued + (IF amount > 0 THEN 1 ELSE 0)])))

\* process_deposit and process_withdraw, after update_pool: harvest, the stake
\* transfer of amount, the stake change of delta and the new debt;
\* [ok, pool, user, fee, net, amount, issued]
settle(p, ui, delta, amount) ==
    With(IF ui.deposit_balance > 0
         THEN harvest(p, ui, pool_reward_token, program_data, overflow_checks)
         ELSE [ok |-> TRUE, user |-> ui, fee |-> 0, net |-> 0, issued |-> 0],
         LAMBDA hv :
    With(IF delta > 0 THEN U64Add(hv.user.deposit_balance, delta, overflow_checks)
         ELSE hv.user.deposit_balance + delta, LAMBDA bal :
    With(hv.issued + (IF amount > 0 THEN 1 ELSE 0), LAMBDA issued :
       IF ~hv.ok
       THEN [ok |-> FALSE, pool |-> farm_pool, user |-> ui, fee |-> 0, net |-> 0,
             amount |-> 0, issued |-> hv.issued]
       ELSE IF bal = None
       THEN [ok |-> FALSE, pool |-> farm_pool, user |-> ui, fee |-> 0, net |-> 0,
             amount |-> 0, issued |-> issued]
       ELSE
       With(get_new_reward_debt(p, [hv.user EXCEPT !.deposit_balance = bal],
                                overflow_checks), LAMBDA debt :
          IF debt = None
          THEN [ok |-> FALSE, pool |-> farm_pool, user |-> ui, fee |-> 0, net |-> 0,
                amount |-> 0, issued |-> issued]
          ELSE [ok |-> TRUE, pool |-> p,
                user |-> [deposit_balance |-> bal, reward_debt |-> debt],
                fee |-> hv.fee, net |-> hv.net, amount |-> amount,
                issued |-> issued]))))

\* process_deposit: [ok, pool, user, fee, net, amount, issued]
process_deposit(u, amount) ==
    IF \/ ~is_allowed(farm_pool)
       \/ now < farm_pool.start_timestamp
       \/ now > farm_pool.end_timestamp
       \/ user_lp_token[u] < amount
    THEN [ok |-> FALSE, pool |-> farm_pool, user |-> user_info[u], fee |-> 0,
          net |-> 0, amount |-> 0, issued |-> 0]
    ELSE With(update_pool(farm_pool, now, pool_lp_token, pool_reward_token,
                          overflow_checks), LAMBDA up :
            IF ~up.ok
            THEN [ok |-> FALSE, pool |-> farm_pool, user |-> user_info[u], fee |-> 0,
                  net |-> 0, amount |-> 0, issued |-> 0]
            ELSE settle(up.pool, user_info[u], amount, amount))

Deposit(u, amount) ==
    \E r \in {process_deposit(u, amount)} :
       /\ r.ok
       /\ farm_pool' = r.pool
       /\ user_info' = [user_info EXCEPT ![u] = r.user]
       /\ pool_lp_token' = pool_lp_token + r.amount
       /\ user_lp_token' = [user_lp_token EXCEPT ![u] = @ - r.amount]
       /\ pool_reward_token' = pool_reward_token - r.fee - r.net
       /\ total_paid' = total_paid + r.fee + r.net
       /\ accrual_calls' = Count(accrual_calls)
       /\ UNCHANGED <<now, overflow_checks, program_data, total_added, removed>>

\* process_withdraw that transfers the requested amount and not the clamped one
process_withdraw_transfers_request(u, amount) ==
    IF \/ ~is_allowed(farm_pool)
       \/ now < farm_pool.start_timestamp
       \/ pool_lp_token < amount
       \/ user_info[u].deposit_balance = 0
    THEN [ok |-> FALSE, pool |-> farm_pool, user |-> user_info[u], fee |-> 0,
          net |-> 0, amount |-> 0, issued |-> 0]
    ELSE With(update_pool(farm_pool, now, pool_lp_token, pool_reward_token,
                          overflow_checks), LAMBDA up :
         With(IF user_info[u].deposit_balance < amount
              THEN user_info[u].deposit_balance ELSE amount, LAMBDA _amount :
            IF ~up.ok \/ _amount > pool_lp_token
            THEN [ok |-> FALSE, pool |-> farm_pool, user |-> user_info[u], fee |-> 0,
                  net |-> 0, amount |-> 0, issued |-> 0]
            ELSE settle(up.pool, user_info[u], 0 - _amount, amount)))

\* process_withdraw without the ZeroDepositBalance check of lines 944-946
process_withdraw_zero_stake(u, amount) ==
    IF \/ ~is_allowed(farm_pool)
       \/ now < farm_pool.start_timestamp
       \/ pool_lp_token < amount
    THEN [ok |-> FALSE, pool |-> farm_pool, user |-> user_info[u], fee |-> 0,
          net |-> 0, amount |-> 0, issued |-> 0]
    ELSE With(update_pool(farm_pool, now, pool_lp_token, pool_reward_token,
                          overflow_checks), LAMBDA up :
         With(IF user_info[u].deposit_balance < amount
              THEN user_info[u].deposit_balance ELSE amount, LAMBDA _amount :
            IF ~up.ok \/ _amount > pool_lp_token
            THEN [ok |-> FALSE, pool |-> farm_pool, user |-> user_info[u], fee |-> 0,
                  net |-> 0, amount |-> 0, issued |-> 0]
            ELSE settle(up.pool, user_info[u], 0 - _amount, _amount)))

\* process_withdraw: [ok, pool, user, fee, net, amount, issued]
process_withdraw(u, amount) ==
    IF \/ ~is_allowed(farm_pool)
       \/ now < farm_pool.start_timestamp
       \/ pool_lp_token < amount
       \/ user_info[u].deposit_balance = 0
    THEN [ok |-> FALSE, pool |-> farm_pool, user |-> user_info[u], fee |-> 0,
          net |-> 0, amount |-> 0, issued |-> 0]
    ELSE With(update_pool(farm_pool, now, pool_lp_token, pool_reward_token,
                          overflow_checks), LAMBDA up :
         With(IF user_info[u].deposit_balance < amount
              THEN user_info[u].deposit_balance ELSE amount, LAMBDA _amount :
            IF ~up.ok \/ _amount > pool_lp_token
            THEN [ok |-> FALSE, pool |-> farm_pool, user |-> user_info[u], fee |-> 0,
                  net |-> 0, amount |-> 0, issued |-> 0]
            ELSE settle(up.pool, user_info[u], 0 - _amount, _amount)))

Withdraw(u, amount) ==
    \E r \in {process_withdraw(u, amount)} :
       /\ r.ok
       /\ farm_pool' = r.pool
       /\ user_info' = [user_info EXCEPT ![u] = r.user]
       /\ pool_lp_token' = pool_lp_token - r.amount
       /\ user_lp_token' = [user_lp_token EXCEPT ![u] = @ + r.amount]
       /\ pool_reward_token' = pool_reward_token - r.fee - r.net
       /\ total_paid' = total_paid + r.fee + r.net
       /\ accrual_calls' = Count(accrual_calls)
       /\ UNCHANGED <<now, overflow_checks, program_data, total_added, removed>>

\* process_add_reward: [ok, pool, accrued, issued]
process_add_reward(amount) ==
    IF now > farm_pool.end_timestamp
    THEN [ok |-> FALSE, pool |-> farm_pool, accrued |-> FALSE, issued |-> 0]
    ELSE IF amount = 0
    THEN [ok |-> TRUE, pool |-> farm_pool, accrued |-> FALSE, issued |-> 0]
    ELSE With(update_pool(farm_pool, now, pool_lp_token, pool_reward_token,
                          overflow_checks), LAMBDA up :
         With(U64Add(up.pool.remained_reward_amount, amount, overflow_checks),
              LAMBDA rem :
            IF ~up.ok
            THEN [ok |-> FALSE, pool |-> farm_pool, accrued |-> FALSE, issued |-> 0]
            ELSE IF rem = None
            THEN [ok |-> FALSE, pool |-> farm_pool, accrued |-> FALSE, issued |-> 1]
            ELSE [ok |-> TRUE,
                  pool |-> [up.pool EXCEPT !.remained_reward_amount = rem],
                  accrued |-> TRUE, issued |-> 1]))

\* the creator's wallet is not modelled: the sum of the top-ups is bounded instead
AddReward(amount) ==
    \E r \in {process_add_reward(amount)} :
       /\ total_added + amount <= MaxBudget
       /\ r.ok
       /\ farm_pool' = r.pool
       /\ pool_reward_token' = pool_reward_token + amount
       /\ total_added' = total_added + amount
       /\ accrual_calls' = IF r.accrued THEN Count(accrual_calls) ELSE accrual_calls
       /\ UNCHANGED <<now, overflow_checks, program_data, user_info, pool_lp_token,
                      user_lp_token, total_paid, removed>>

\* process_pay_farm_fee without the InvalidFarmFee check of lines 1260-1262
process_pay_farm_fee_unchecked(amount) ==
    [ok |-> TRUE, pool |-> set_allowed(farm_pool, 1), amount |-> amount,
     issued |-> 1]

\* process_pay_farm_fee: [ok, pool, amount, issued]; amount goes to the fee owner
process_pay_farm_fee(amount) ==
    IF amount < program_data.farm_fee
    THEN [ok |-> FALSE, pool |-> farm_pool, amount |-> 0, issued |-> 0]
    ELSE [ok |-> TRUE, pool |-> set_allowed(farm_pool, 1), amount |-> amount,
          issued |-> 1]

PayFarmFee(amount) ==
    \E r \in {process_pay_farm_fee(amount)} :
       /\ r.ok
       /\ farm_pool' = r.pool
       /\ UNCHANGED <<now, overflow_checks, program_data, user_info,
                      pool_lp_token, pool_reward_token, user_lp_token, total_added,
                      total_paid, accrual_calls, removed>>

\* process_remove_rewards: [ok, pool, amount, issued]
process_remove_rewards(farm_id, remover) ==
    IF farm_id # REMOVE_REWARDS_FARM_ADDRESS \/ remover # SUPER_OWNER
    THEN [ok |-> FALSE, pool |-> farm_pool, amount |-> 0, issued |-> 0]
    ELSE With(U64Sub(farm_pool.remained_reward_amount, pool_reward_token,
                     overflow_checks), LAMBDA rem :
            IF rem = None
            THEN [ok |-> FALSE, pool |-> farm_pool, amount |-> 0, issued |-> 1]
            ELSE [ok |-> TRUE,
                  pool |-> [farm_pool EXCEPT !.remained_reward_amount = rem],
                  amount |-> pool_reward_token, issued |-> 1])

RemoveRewards(farm_id, remover) ==
    \E r \in {process_remove_rewards(farm_id, remover)} :
       /\ r.ok
       /\ farm_pool' = r.pool
       /\ pool_reward_token' = pool_reward_token - r.amount
       /\ removed' = TRUE
       /\ UNCHANGED <<now, overflow_checks, program_data, user_info, pool_lp_token,
                      user_lp_token, total_added, total_paid, accrual_calls>>

Next ==
    \/ Tick
    \/ \E u \in Stakers, amount \in 0..MaxAmount : Deposit(u, amount)
    \/ \E u \in Stakers, amount \in 0..(MaxAmount + 1) : Withdraw(u, amount)
    \/ \E amount \in 0..MaxReward : AddReward(amount)
    \/ \E amount \in {FARM_FEE - 1, FARM_FEE} : PayFarmFee(amount)
    \/ \E farm_id \in {REMOVE_REWARDS_FARM_ADDRESS, "other_farm"},
          remover \in {SUPER_OWNER, "other"} : RemoveRewards(farm_id, remover)

Spec == Init /\ [][Next]_vars

\* ------------------------------------------- the program data being set
\* harvest fee numerators and denominators a caller may pass
HarvestFeeNumerators == {1, 5}

HarvestFeeDenominators == {0, 4}

\* process_initialize_or_set_program on the initialized account: [ok, data]
process_initialize_or_set_program(owner, farm_fee, harvest_fee_numerator, harvest_fee_denominator) ==
    IF owner # SUPER_OWNER THEN [ok |-> FALSE, data |-> program_data]
    ELSE [ok |-> TRUE,
          data |-> [farm_fee |-> farm_fee,
                    harvest_fee_numerator |-> harvest_fee_numerator,
                    harvest_fee_denominator |-> harvest_fee_denominator]]

SetProgramData(owner, farm_fee, harvest_fee_numerator, harvest_fee_denominator) ==
    /\ process_initialize_or_set_program(owner, farm_fee, harvest_fee_numerator,
                                         harvest_fee_denominator).ok
    /\ program_data' =
          process_initialize_or_set_program(owner, farm_fee, harvest_fee_numerator,
                                            harvest_fee_denominator).data
    /\ UNCHANGED <<now, overflow_checks, farm_pool, user_info, pool_lp_token,
                   pool_reward_token, user_lp_token, total_added, total_paid,
                   accrual_calls, removed>>

\* deposits, withdrawals, top-ups and the farm fee, with the program data set
\* again between them
NextProgram ==
    \/ \E owner \in {SUPER_OWNER, "other"}, farm_fee \in {FARM_FEE},
          harvest_fee_numerator \in HarvestFeeNumerators,
          harvest_fee_denominator \in HarvestFeeDenominators :
          SetProgramData(owner, farm_fee, harvest_fee_numerator,
                         harvest_fee_denominator)
    \/ Tick
    \/ \E u \in Stakers, amount \in 0..MaxAmount : Deposit(u, amount)
    \/ \E u \in Stakers, amount \in 0..(MaxAmount + 1) : Withdraw(u, amount)
    \/ \E amount \in 0..MaxReward : AddReward(amount)
    \/ \E amount \in {FARM_FEE - 1, FARM_FEE} : PayFarmFee(amount)

SpecProgram == Init /\ [][NextProgram]_vars

\* ------------------------------------------------------------------ claims
\* the accrual an instruction would run in the current state
accrual == update_pool(farm_pool, now, pool_lp_token, pool_reward_token,
                       overflow_checks)

\* C1: without RemoveRewards, what was paid (net and fees) plus the remaining
\* budget equals the sum of the AddReward amounts, up to a dust of at most
\* one unit per accrual call (while the call counter is below its cap).
C1_Conservation ==
    (~removed /\ accrual_calls < MaxCalls) =>
        /\ total_paid + farm_pool.remained_reward_amount
               <= total_added + accrual_calls
        /\ total_added
               <= total_paid + farm_pool.remained_reward_amount + accrual_calls

\* C2: what was paid so far (net and fees) is at most what was emitted so far,
\* the sum of the AddReward amounts minus the remaining budget.
C2_NoOverpayment ==
    ~removed => total_paid <= total_added - farm_pool.remained_reward_amount

\* C3: at version 1 with now > last_timestamp (before the end) and a staked
\* farm, the accrual emits min(elapsed * floor(remained / (end - last)),
\* remained), takes it from the budget, adds floor(emitted * REWARD_MULTIPLER /
\* staked) to the accumulator and sets last_timestamp to now.
C3_AccrualResult ==
    LET p == farm_pool
        emitted == Min((Min(now, p.end_timestamp) - p.last_timestamp)
                         * (p.remained_reward_amount
                              \div (p.end_timestamp - p.last_timestamp)),
                       p.remained_reward_amount)
    IN  (/\ get_pool_version(p) = 1
         /\ now > p.last_timestamp
         /\ p.end_timestamp > p.last_timestamp
         /\ pool_lp_token > 0) =>
            accrual =
              [ok |-> TRUE,
               pool |-> [p EXCEPT
                  !.remained_reward_amount = @ - emitted,
                  !.reward_per_share_net =
                      @ + (emitted * REWARD_MULTIPLER) \div pool_lp_token,
                  !.last_timestamp = now]]

\* C4: a staker with a stake can withdraw it whenever now >= start_timestamp,
\* whatever ran before.
C4_WithdrawAvailable ==
    \A u \in Stakers :
       (user_info[u].deposit_balance > 0 /\ now >= farm_pool.start_timestamp) =>
          \E r \in {process_withdraw(u, user_info[u].deposit_balance)} :
             r.ok /\ r.amount = user_info[u].deposit_balance

\* a stake whose settlement is in order cannot be withdrawn after the pool
\* was accrued at exactly end_timestamp
C4_StuckAfterEnd ==
    \E u \in Stakers :
       /\ user_info[u].deposit_balance > 0
       /\ get_pool_version(farm_pool) = 1
       /\ farm_pool.last_timestamp = farm_pool.end_timestamp
       /\ now > farm_pool.end_timestamp
       /\ pending_rewards(farm_pool, user_info[u]).ok
       /\ ~process_withdraw(u, user_info[u].deposit_balance).ok

\* C5: where withdrawing the whole stake s succeeds, withdrawing any amount
\* above s succeeds too, returns exactly s and leaves a stake of 0.
C5_WithdrawClamps ==
    \A u \in Stakers :
       (/\ user_info[u].deposit_balance > 0
        /\ process_withdraw(u, user_info[u].deposit_balance).ok) =>
          \A a \in (user_info[u].deposit_balance + 1)..(pool_lp_token + 1) :
             \E r \in {process_withdraw(u, a)} :
                /\ r.ok
                /\ r.amount = user_info[u].deposit_balance
                /\ r.user.deposit_balance = 0

\* C6: the claimable reward of a position is floor(staked * accumulator /
\* REWARD_MULTIPLER) less the debt above JUMP_DEBT, and the debt stored for a
\* new stake is JUMP_DEBT + floor(newStaked * accumulator / REWARD_MULTIPLER)
\* (where neither underflows nor leaves u64).
C6_SettlementResult ==
    \A u \in Stakers :
       LET ui == user_info[u]
           acc == farm_pool.reward_per_share_net
           raw == (ui.deposit_balance * acc) \div REWARD_MULTIPLER
           debt == IF ui.reward_debt > JUMP_DEBT THEN ui.reward_debt - JUMP_DEBT
                   ELSE 0
       IN  /\ (raw >= debt /\ raw < U64Mod) =>
                 \E r \in {pending_rewards(farm_pool, ui)} :
                    r.ok /\ r.val = raw - debt
           /\ \A newStaked \in 0..(ui.deposit_balance + MaxAmount) :
                 (newStaked * acc) \div REWARD_MULTIPLER < U64Mod - JUMP_DEBT =>
                    get_new_reward_debt(farm_pool,
                        [ui EXCEPT !.deposit_balance = newStaked], overflow_checks)
                      = JUMP_DEBT + (newStaked * acc) \div REWARD_MULTIPLER

\* C7: without RemoveRewards, an accrual of a staked farm before the end emits
\* no more than the share of the budget that falls to the interval since
\* last_timestamp (rounded up).
C7_UnstakedTimeNoReward ==
    LET p == farm_pool
    IN  (/\ ~removed
         /\ pool_lp_token > 0
         /\ now > p.last_timestamp
         /\ p.end_timestamp > p.last_timestamp
         /\ accrual.ok) =>
            pool_reward_token - accrual.pool.remained_reward_amount
              <= (pool_reward_token
                    * (Min(now, p.end_timestamp) - p.last_timestamp)
                  + (p.end_timestamp - p.last_timestamp) - 1)
                 \div (p.end_timestamp - p.last_timestamp)

\* C8: an accrual of an empty farm with now > last_timestamp succeeds and
\* changes only last_timestamp, which becomes now.
C8_ZeroStakeStep ==
    (pool_lp_token = 0 /\ now > farm_pool.last_timestamp) =>
        accrual = [ok |-> TRUE,
                   pool |-> [farm_pool EXCEPT !.last_timestamp = now]]

\* an empty farm was accrued after the start and holds its budget
C8_Witness ==
    /\ get_pool_version(farm_pool) = 0
    /\ farm_pool.last_timestamp > farm_pool.start_timestamp
    /\ farm_pool.reward_per_share_net = 0
    /\ farm_pool.remained_reward_amount = total_added
    /\ total_added > 0

\* C9: once a version 1 pool was accrued at or after end_timestamp, a later
\* accrual succeeds and leaves the accumulator and the budget as they are.
C9_NoEmissionAfterEnd ==
    (/\ get_pool_version(farm_pool) = 1
     /\ farm_pool.last_timestamp >= farm_pool.end_timestamp
     /\ now > farm_pool.last_timestamp) =>
        /\ accrual.ok
        /\ accrual.pool.reward_per_share_net = farm_pool.reward_per_share_net
        /\ accrual.pool.remained_reward_amount = farm_pool.remained_reward_amount

\* C10: no step taken while the farm is staked lowers the accumulator.
C10_Monotonicity ==
    [][pool_lp_token > 0 =>
          farm_pool'.reward_per_share_net >= farm_pool.reward_per_share_net]_vars

\* the conversion from version 0 ran and the accumulator grew at least twice
C10_Witness ==
    /\ get_pool_version(farm_pool) = 1
    /\ pool_lp_token > 0
    /\ farm_pool.reward_per_share_net > 0
    /\ farm_pool.last_timestamp = farm_pool.end_timestamp
    /\ farm_pool.remained_reward_amount = 0
    /\ total_paid > 0

\* C11: a first deposit into a farm others stake in accrues the pool on the
\* total stake without the new deposit, pays the newcomer nothing and leaves
\* a position whose claimable reward is 0.
C11_LateJoinerIsolation ==
    \A u \in Stakers, a \in 1..MaxAmount :
       (user_info[u].deposit_balance = 0 /\ pool_lp_token > 0) =>
          \E r \in {process_deposit(u, a)} :
             r.ok =>
                /\ r.pool = accrual.pool
                /\ r.fee = 0 /\ r.net = 0
                /\ \E pr \in {pending_rewards(r.pool, r.user)} :
                      pr.ok /\ pr.val = 0

\* C12: without RemoveRewards, when only one staker has ever used the farm
\* and the version 1 pool was just accrued, what that staker was paid plus
\* what the staker can claim (where the settlement does not fail) is what the
\* pool emitted so far.
C12_SoleStakerExactness ==
    \A u \in Stakers :
       (/\ ~removed
        /\ get_pool_version(farm_pool) = 1
        /\ farm_pool.last_timestamp = now
        /\ user_info[u].deposit_balance > 0
        /\ \A v \in Stakers \ {u} :
              user_info[v].deposit_balance = 0 /\ user_info[v].reward_debt = 0) =>
           \E pr \in {pending_rewards(farm_pool, user_info[u])} :
              pr.ok => total_paid + pr.val
                         = total_added - farm_pool.remained_reward_amount

\* C13: after a step that deposits X > 0 into an empty position, withdrawing
\* X at the same timestamp succeeds, pays no fee and no reward, and leaves a
\* stake of 0 with a debt of JUMP_DEBT.
C13_DepositThenWithdraw ==
    [][\A u \in Stakers :
          (user_info[u].deposit_balance = 0 /\ user_info'[u].deposit_balance > 0) =>
             (\E r \in {process_withdraw(u, user_info[u].deposit_balance)} :
                 /\ r.ok
                 /\ r.fee = 0 /\ r.net = 0
                 /\ r.user = [deposit_balance |-> 0, reward_debt |-> JUMP_DEBT])']_vars

\* C14: after a step in which a staker's position was settled, a further
\* Deposit or Withdraw of that staker at the same timestamp pays no fee and
\* no reward.
C14_NoDoublePayment ==
    [][\A u \in Stakers :
          user_info'[u] # user_info[u] =>
             (/\ \A a \in 0..MaxAmount :
                    \E r \in {process_deposit(u, a)} : r.fee = 0 /\ r.net = 0
              /\ \A a \in 0..(MaxAmount + 1) :
                    \E r \in {process_withdraw(u, a)} : r.fee = 0 /\ r.net = 0)']_vars

\* C15: a Deposit into a position with a stake pays the reward pending on the
\* old stake at the freshly accrued accumulator (at most the custody
\* balance), then raises the stake and
\* stores the debt of the new stake at that accumulator.
C15_HarvestBeforeRestake ==
    \A u \in Stakers, a \in 0..MaxAmount :
       user_info[u].deposit_balance > 0 =>
          \E r \in {process_deposit(u, a)} :
             r.ok =>
                /\ accrual.ok
                /\ r.pool = accrual.pool
                /\ r.fee + r.net =
                      Min(pool_reward_token,
                          pending_rewards(accrual.pool, user_info[u]).val)
                /\ r.user.deposit_balance = user_info[u].deposit_balance + a
                /\ r.user.reward_debt =
                      get_new_reward_debt(accrual.pool, r.user, overflow_checks)

\* a staker with a stake deposited again and was paid on the way
C15_Witness ==
    \E u \in Stakers :
       /\ user_info[u].deposit_balance = 2
       /\ total_paid > 0
       /\ farm_pool.last_timestamp = now
       /\ farm_pool.reward_per_share_net > 0
       /\ user_lp_token[u] = InitialLp[u] - 2
       /\ \A v \in Stakers \ {u} : user_info[v].reward_debt = 0

\* update_pool called once per second from time t to time to: [ok, pool]
RECURSIVE accrue_each_second(_, _, _)
accrue_each_second(p, t, to) ==
    IF t > to THEN [ok |-> TRUE, pool |-> p]
    ELSE With(update_pool(p, t, pool_lp_token, pool_reward_token, overflow_checks),
              LAMBDA r :
            IF ~r.ok THEN r ELSE accrue_each_second(r.pool, t + 1, to))

\* C16: for a version 1 pool up to end_timestamp, one accrual after N idle
\* seconds leaves the pool as N accruals one second apart do.
C16_IdleSpanEquivalence ==
    (/\ get_pool_version(farm_pool) = 1
     /\ now > farm_pool.last_timestamp
     /\ now <= farm_pool.end_timestamp) =>
        accrual = accrue_each_second(farm_pool, farm_pool.last_timestamp + 1, now)

\* C17: an accrual with now <= last_timestamp succeeds and changes nothing in
\* the pool.
C17_TimestampIdempotence ==
    now <= farm_pool.last_timestamp =>
        accrual = [ok |-> TRUE, pool |-> farm_pool]

\* a staked pool with budget left was accrued at the current timestamp
C17_Witness ==
    /\ farm_pool.last_timestamp = now
    /\ now > farm_pool.start_timestamp
    /\ pool_lp_token > 0
    /\ farm_pool.reward_per_share_net > 0
    /\ farm_pool.remained_reward_amount > 0

\* C18: a harvest that pays the claimable amount c takes the fee
\* floor(c * harvest_fee_numerator / harvest_fee_denominator) and pays the
\* staker c minus that fee.
C18_FeeSplitExactness ==
    \A u \in Stakers :
       \E pr \in {pending_rewards(farm_pool, user_info[u])},
          h \in {harvest(farm_pool, user_info[u], pool_reward_token,
                         program_data, overflow_checks)} :
          (pr.ok /\ h.ok /\ program_data.harvest_fee_denominator > 0) =>
             \E c \in {Min(pool_reward_token, pr.val)} :
                /\ h.fee = (c * program_data.harvest_fee_numerator)
                              \div program_data.harvest_fee_denominator
                /\ h.net = c - h.fee

C20_TransfersComeLast ==
    /\ \A u \in Stakers, a \in 0..(MaxAmount + 1) :
          /\ \E r \in {process_deposit(u, a)} : ~r.ok => r.issued = 0
          /\ \E r \in {process_withdraw(u, a)} : ~r.ok => r.issued = 0
    /\ \A a \in 0..MaxReward :
          \E r \in {process_add_reward(a)} : ~r.ok => r.issued = 0
    /\ \A a \in {FARM_FEE - 1, FARM_FEE} :
          \E r \in {process_pay_farm_fee(a)} : ~r.ok => r.issued = 0
    /\ \A f \in {REMOVE_REWARDS_FARM_ADDRESS, "other_farm"},
          m \in {SUPER_OWNER, "other"} :
          \E r \in {process_remove_rewards(f, m)} : ~r.ok => r.issued = 0

\* C21: a harvest pays (fee plus net) at most the custody balance of the reward
\* token, and an entitlement above that balance is paid as the balance instead
\* of failing.
C21_ClaimCap ==
    \A u \in Stakers :
       \E pr \in {pending_rewards(farm_pool, user_info[u])},
          h \in {harvest(farm_pool, user_info[u], pool_reward_token,
                         program_data, overflow_checks)} :
          /\ h.ok => h.fee + h.net <= pool_reward_token
          /\ (pr.ok /\ pr.val > pool_reward_token) =>
                h.ok /\ h.fee + h.net = pool_reward_token

\* a staker's entitlement exceeds a custody balance that is not empty
C21_Witness ==
    \E u \in Stakers :
       /\ user_info[u].deposit_balance > 0
       /\ pool_reward_token > 0
       /\ \E pr \in {pending_rewards(farm_pool, user_info[u])} :
             pr.ok /\ pr.val > pool_reward_token

\* C22: a position that a Deposit or Withdraw has settled has a debt of at least
\* JUMP_DEBT, and JUMP_DEBT + floor(staked * accumulator / REWARD_MULTIPLER)
\* fits the 64-bit debt field.
C22_DebtBias ==
    \A u \in Stakers :
       (user_info[u].reward_debt # 0 \/ user_info[u].deposit_balance # 0) =>
          /\ user_info[u].reward_debt >= JUMP_DEBT
          /\ JUMP_DEBT + (user_info[u].deposit_balance
                             * farm_pool.reward_per_share_net) \div REWARD_MULTIPLER
                < U64Mod

\* C23: no step other than an AddReward raises the remaining reward budget.
C23_BudgetMonotonicity ==
    [][total_added' = total_added =>
          farm_pool'.remained_reward_amount <= farm_pool.remained_reward_amount]_vars

\* C24: once the pool has version 1, every later step keeps version 1, never
\* lowers the accumulator and raises the budget only by an AddReward or by the
\* subtraction of RemoveRewards: the conversion of version 0 does not run again.
C24_OneTimeMigration ==
    [][get_pool_version(farm_pool) = 1 =>
          /\ get_pool_version(farm_pool') = 1
          /\ farm_pool'.reward_per_share_net >= farm_pool.reward_per_share_net
          /\ farm_pool'.remained_reward_amount > farm_pool.remained_reward_amount =>
                \/ total_added' > total_added
                \/ farm_pool' = process_remove_rewards(REMOVE_REWARDS_FARM_ADDRESS,
                                                       SUPER_OWNER).pool]_vars

\* a converted pool that went through later accruals and payouts
C24_Witness ==
    /\ get_pool_version(farm_pool) = 1
    /\ farm_pool.reward_per_share_net > 0
    /\ farm_pool.last_timestamp > farm_pool.start_timestamp + 1
    /\ total_paid > 0
    /\ pool_reward_token > farm_pool.remained_reward_amount

\* C25: a Deposit with now < start_timestamp, now > end_timestamp or a closed
\* fee gate is rejected and changes neither the pool nor the position; a
\* Deposit that succeeds was made with start_timestamp <= now <= end_timestamp
\* and an open gate; within that period and with the gate open, Deposit(0)
\* succeeds and leaves the stake unchanged.
C25_DepositPreconditions ==
    \A u \in Stakers :
       \E active \in {/\ is_allowed(farm_pool)
                      /\ now >= farm_pool.start_timestamp
                      /\ now <= farm_pool.end_timestamp} :
          /\ \A a \in 0..MaxAmount :
                \E r \in {process_deposit(u, a)} :
                   /\ r.ok => active
                   /\ ~active => /\ ~r.ok
                                 /\ r.pool = farm_pool
                                 /\ r.user = user_info[u]
          /\ active =>
                \E r \in {process_deposit(u, 0)} :
                   /\ r.ok
                   /\ r.amount = 0
                   /\ r.user.deposit_balance = user_info[u].deposit_balance

\* C26: a Withdraw with now < start_timestamp, or by a staker whose stake is
\* zero, is rejected for every amount and changes nothing.
C26_WithdrawRejections ==
    \A u \in Stakers, a \in 0..(MaxAmount + 1) :
       (now < farm_pool.start_timestamp \/ user_info[u].deposit_balance = 0) =>
          \E r \in {process_withdraw(u, a)} :
             /\ ~r.ok
             /\ r.pool = farm_pool /\ r.user = user_info[u]
             /\ r.fee = 0 /\ r.net = 0 /\ r.amount = 0

\* the farm has started and holds stake, and one staker's stake is zero
C26_Witness ==
    /\ now >= farm_pool.start_timestamp
    /\ is_allowed(farm_pool)
    /\ pool_lp_token > 1
    /\ \E u \in Stakers : user_info[u].deposit_balance = 0
                            /\ user_info[u].reward_debt >= JUMP_DEBT

\* C27: AddReward(amount) with now <= end_timestamp succeeds, accrues the pool
\* to now and then adds exactly amount to the budget, for every amount; with
\* now > end_timestamp it is rejected and the pool is unchanged; before
\* start_timestamp it leaves the accumulator and last_timestamp unchanged.
C27_AddReward ==
    \A a \in 0..MaxReward :
       \E r \in {process_add_reward(a)} :
          /\ now <= farm_pool.end_timestamp =>
                /\ r.ok
                /\ accrual.ok
                /\ r.pool = [accrual.pool EXCEPT !.remained_reward_amount = @ + a]
          /\ now > farm_pool.end_timestamp => ~r.ok /\ r.pool = farm_pool
          /\ now < farm_pool.start_timestamp =>
                /\ r.pool.reward_per_share_net = farm_pool.reward_per_share_net
                /\ r.pool.last_timestamp = farm_pool.last_timestamp

\* C28: once the fee gate of the farm is open, every later step leaves it open.
C28_GateStaysOpen ==
    [][is_allowed(farm_pool) => is_allowed(farm_pool')]_vars

\* the gate is open after the conversion to version 1, payouts, a RemoveRewards
\* and the end of the farm
C28_Witness ==
    /\ is_allowed(farm_pool)
    /\ get_pool_version(farm_pool) = 1
    /\ removed
    /\ total_paid > 0
    /\ farm_pool.last_timestamp = farm_pool.end_timestamp

C30_RemoveRewards ==
    \A f \in {REMOVE_REWARDS_FARM_ADDRESS, "other_farm"}, m \in {SUPER_OWNER, "other"} :
       \E r \in {process_remove_rewards(f, m)} :
          IF f = REMOVE_REWARDS_FARM_ADDRESS /\ m = SUPER_OWNER
          THEN /\ r.ok
               /\ r.amount = pool_reward_token
               /\ farm_pool.remained_reward_amount >= pool_reward_token
               /\ r.pool = [farm_pool EXCEPT !.remained_reward_amount =
                               @ - pool_reward_token]
          ELSE ~r.ok /\ r.pool = farm_pool /\ r.amount = 0

\* C31: SetProgramData with harvest_fee_denominator = 0 is rejected, so the
\* stored harvest fee denominator is never 0.
C31_ZeroDenominatorRejected ==
    program_data.harvest_fee_denominator # 0

\* C37: under every harvest fee configuration that SetProgramData has stored,
\* the fee of every claimable amount above 0 is computed and is at most that
\* amount.
C37_FeeNeverExceedsClaim ==
    \A c \in 1..MaxBudget :
       \E f \in {get_harvest_fee(c, program_data)} : f # None /\ f <= c

\* C32: an operation that succeeds has stored the values of the exact
\* arithmetic: the new debt is JUMP_DEBT plus the entitlement with no wrap and
\* no clamp of the conversion to 64 bits, the budget after an AddReward is the
\* accrued budget plus the amount, and the budget after a RemoveRewards is the
\* budget minus the custody balance; an overflow or underflow makes it fail.
C32_OverflowIsFatal ==
    /\ \A u \in Stakers, a \in 0..(MaxAmount + 1) :
          \A r \in {process_deposit(u, a), process_withdraw(u, a)} :
             r.ok =>
                \E e \in {PN_to_imprecise(share_of(r.pool, r.user))} :
                   /\ e < U64Mod
                   /\ r.user.reward_debt = JUMP_DEBT + e
    /\ \A a \in 1..MaxReward :
          \E r \in {process_add_reward(a)} :
             r.ok => r.pool.remained_reward_amount
                        = accrual.pool.remained_reward_amount + a
    /\ \E r \in {process_remove_rewards(REMOVE_REWARDS_FARM_ADDRESS, SUPER_OWNER)} :
          r.ok => r.pool.remained_reward_amount
                     = farm_pool.remained_reward_amount - pool_reward_token

\* C33: for every position, the entitlement staked * accumulator /
\* REWARD_MULTIPLER is at least the recorded debt minus JUMP_DEBT, so
\* pending_rewards succeeds on the stored pool and on the accrued pool.
C33_SettlementNeverUnderflows ==
    \A u \in Stakers :
       /\ pending_rewards(farm_pool, user_info[u]).ok
       /\ accrual.ok => pending_rewards(accrual.pool, user_info[u]).ok

\* C34: while no RemoveRewards was made, the custody balance of the reward token
\* is at least the remaining budget plus the claimable amounts of all positions.
C34_RewardSolvency ==
    (/\ ~removed
     /\ \A u \in Stakers : pending_rewards(farm_pool, user_info[u]).ok) =>
        pool_reward_token >=
            farm_pool.remained_reward_amount
              + pending_rewards(farm_pool, user_info["alice"]).val
              + pending_rewards(farm_pool, user_info["bob"]).val

\* C35: the stakes of all positions sum to the custody balance of the stake
\* token, what a staker has staked is what left the staker's wallet, and a
\* successful Deposit or Withdraw moves exactly the amount by which it changes
\* the stake (for a Withdraw the requested amount clamped to the stake).
C35_StakeConservation ==
    /\ user_info["alice"].deposit_balance + user_info["bob"].deposit_balance
          = pool_lp_token
    /\ \A u \in Stakers :
          /\ user_lp_token[u] + user_info[u].deposit_balance = InitialLp[u]
          /\ \A a \in 0..(MaxAmount + 1) :
                /\ \E r \in {process_deposit(u, a)} :
                      r.ok => /\ r.amount = a
                              /\ r.user.deposit_balance
                                    = user_info[u].deposit_balance + a
                /\ \E r \in {process_withdraw(u, a)} :
                      r.ok => /\ r.amount = Min(a, user_info[u].deposit_balance)
                              /\ r.user.deposit_balance
                                    = user_info[u].deposit_balance - r.amount

\* both stakers hold stake, one of them with a debt above JUMP_DEBT, and
\* rewards were paid
C35_Witness ==
    /\ user_info["alice"].deposit_balance = 1
    /\ user_info["alice"].reward_debt > JUMP_DEBT
    /\ user_info["bob"].deposit_balance = 1
    /\ total_paid > 0

\* C36: a Deposit or Withdraw whose harvest was capped to the custody balance
\* still stores the debt JUMP_DEBT + newStaked * accumulator / REWARD_MULTIPLER,
\* and on the pool it leaves the position has nothing more to claim.
C36_CappedHarvestForfeits ==
    \A u \in Stakers, a \in 0..(MaxAmount + 1) :
       \A r \in {process_deposit(u, a), process_withdraw(u, a)} :
          (/\ r.ok
           /\ user_info[u].deposit_balance > 0
           /\ pending_rewards(r.pool, user_info[u]).val > pool_reward_token) =>
              /\ r.fee + r.net = pool_reward_token
              /\ r.user.reward_debt =
                    JUMP_DEBT + PN_to_imprecise(share_of(r.pool, r.user))
              /\ \E pr \in {pending_rewards(r.pool, r.user)} :
                    ~pr.ok \/ pr.val = 0

\* C38: on the stored byte, set_pool_version(v) sets the version and leaves
\* is_allowed unchanged, and set_allowed(0 or 1) sets the flag and leaves the
\* version unchanged; PayFarmFee leaves the version and an accrual leaves the
\* gate as they are.
C38_GateAndVersionIndependent ==
    /\ \A v \in {0, 1} :
          /\ get_pool_version(set_pool_version(farm_pool, v)) = v
          /\ is_allowed(set_pool_version(farm_pool, v)) = is_allowed(farm_pool)
    /\ \A a \in {0, 1} :
          /\ is_allowed(set_allowed(farm_pool, a)) = (a = 1)
          /\ get_pool_version(set_allowed(farm_pool, a)) = get_pool_version(farm_pool)
    /\ get_pool_version(process_pay_farm_fee(FARM_FEE).pool)
          = get_pool_version(farm_pool)
    /\ accrual.ok => is_allowed(accrual.pool) = is_allowed(farm_pool)

\* the byte holds version 1 and the open gate, and the next accrual is not a
\* conversion
C38_Witness ==
    /\ farm_pool.is_allowed = 11
    /\ now > farm_pool.last_timestamp
    /\ pool_lp_token > 0

\* C39: a step that changes the position of one staker leaves the stake and the
\* debt of every other staker unchanged, and at the accumulator the step leaves
\* every other staker is paid by a harvest what the staker would have been paid
\* without the step.
C39_PositionIsolation ==
    [][\A u \in Stakers :
          user_info'[u] # user_info[u] =>
             \A v \in Stakers \ {u} :
                /\ user_info'[v] = user_info[v]
                /\ \E h1 \in {harvest(farm_pool', user_info[v], pool_reward_token,
                                      program_data, overflow_checks)},
                      h2 \in {harvest(farm_pool', user_info'[v], pool_reward_token',
                                      program_data, overflow_checks)} :
                      h1.ok = h2.ok /\ h1.fee + h1.net = h2.fee + h2.net]_vars
====
